---- MODULE Spec2Model ----
(***************************************************************************)
(* Model of src/src/app.component.ts (AppComponent): the recursive canvas  *)
(* partition of regenerateLayout, its Fisher-Yates shuffle, the min/max    *)
(* size handlers and the derived style computation generatedShapes.        *)
(*                                                                         *)
(* Math.random() is a nondeterministic choice: the stop trial              *)
(* (Math.random() > 0.1) may go either way and a rounded split offset may  *)
(* be any integer the rounding can produce.                                *)
(***************************************************************************)
EXTENDS Integers, Sequences, FiniteSets, TLC

(***************************************************************************)
(* Bounds of the model.                                                    *)
(***************************************************************************)
\* canvas offsetWidth / offsetHeight range over 0..MaxCanvas (Spec, SpecStyle)
MaxCanvas == 2
\* the size sliders deliver values 1..MaxSize
MaxSize == 2
\* handler sequences (Spec) are explored while the canvas holds at most this many leaves
MaxShapes == 3
\* style sequences (SpecStyle) start from geometries of at most this many leaves
StyleMaxShapes == 4
\* style sequences (SpecStyle) start from palettes of at most this many colours
MaxPalette == 2
\* the history counter generation saturates here
MaxGeneration == 2
\* single runs (SpecRun): canvas extents 0..RunMaxCanvas, at most RunMaxShapes leaves
RunMaxCanvas == 4
RunMaxShapes == 6
\* runs with minSize <= 0 (SpecRunInvalid) are followed this far
MaxCalls == 4

(***************************************************************************)
(* Program constants.                                                      *)
(***************************************************************************)
InitMinShapeSize == 30
InitMaxShapeSize == 150
InitWhiteSpace == 20
InitColors == <<"#1B998B", "#2D3047", "#FFFD82", "#FF9B71", "#E84855">>
WhiteColor == "#ffffff"
FallbackColors == <<"#cccccc">>

\* values the controls deliver
SizeValues == 1..MaxSize
InvalidSizeValues == (0 - 1)..0
CanvasValues == 0..MaxCanvas
RunCanvasValues == 0..RunMaxCanvas
WhiteSpaceValues == {-25, 0, 50, 125}
ShapeTypes == {"square", "circle"}
PickedColors == {"#000000"}
NoCanvas == <<>>
CanvasElements == {NoCanvas} \cup (CanvasValues \X CanvasValues)
RunCanvasElements == {NoCanvas} \cup (RunCanvasValues \X RunCanvasValues)
StyleColors == {"#111", "#222"}

VARIABLES
    colors,          \* signal colors
    whiteSpace,      \* signal whiteSpace
    shapeType,       \* signal shapeType
    minShapeSize,    \* signal minShapeSize
    maxShapeSize,    \* signal maxShapeSize
    baseShapes,      \* signal baseShapes
    shuffledIndices, \* signal shuffledIndices
    canvasWidth,     \* field canvasWidth
    canvasHeight,    \* field canvasHeight
    shapeIdCounter,  \* field shapeIdCounter
    rendered,        \* the afterNextRender callback has run
    generation,      \* history: regenerateLayout runs that published shapes (saturating)
    lastCanvas,      \* history: the canvas element the last regenerateLayout found
    pc,              \* position inside regenerateLayout ("idle" between handlers)
    stack,           \* pending partition(x, y, width, height) calls, next call first
    newBaseShapes,   \* local newBaseShapes
    indices,         \* local indices
    loopI,           \* local i of the shuffle loop
    callDepth,       \* history: recursion depth of every pending call, aligned with stack
    maxDepth         \* history: the greatest recursion depth of a call of this run

vars == <<colors, whiteSpace, shapeType, minShapeSize, maxShapeSize, baseShapes,
          shuffledIndices, canvasWidth, canvasHeight, shapeIdCounter, rendered,
          generation, lastCanvas, pc, stack, newBaseShapes, indices, loopI,
          callDepth, maxDepth>>

styleVars == <<colors, whiteSpace, shapeType>>
runVars == <<pc, stack, newBaseShapes, indices, loopI, callDepth, maxDepth>>

(***************************************************************************)
(* Helpers.                                                                *)
(***************************************************************************)
Max2(a, b) == IF a >= b THEN a ELSE b
Min2(a, b) == IF a <= b THEN a ELSE b
Range(s) == {s[k] : k \in 1..Len(s)}
nextGeneration(g) == Min2(g + 1, MaxGeneration)

(***************************************************************************)
(* partition(x, y, width, height), one call at a time.                     *)
(***************************************************************************)
Rect(x, y, width, height) == [x |-> x, y |-> y, width |-> width, height |-> height]
BaseShape(id, r) == [id |-> id, x |-> r.x, y |-> r.y, width |-> r.width, height |-> r.height]

canSplitHorizontally(height, minSize) == height >= minSize * 2
\* mutant of canSplitVertically: one minSize is enough
canSplitVerticallyAtMin(width, minSize) == width >= minSize

canSplitVertically(width, minSize) == width >= minSize * 2

\* mutant of shouldStopOutcomes: only the width is compared with maxSize
shouldStopOutcomesWidthOnly(width, height, maxSize) ==
    IF width <= maxSize THEN {TRUE, FALSE} ELSE {FALSE}

\* outcomes of: width <= maxSize && height <= maxSize && Math.random() > 0.1
shouldStopOutcomes(width, height, maxSize) ==
    IF width <= maxSize /\ height <= maxSize THEN {TRUE, FALSE} ELSE {FALSE}

\* mutant of emitsLeaf: only a successful stop trial makes a leaf
emitsLeafOnStop(shouldStop, width, height, minSize) == shouldStop

\* the leaf test of partition for one outcome of shouldStop
emitsLeaf(shouldStop, width, height, minSize) ==
    shouldStop \/ (~canSplitHorizontally(height, minSize) /\ ~canSplitVertically(width, minSize))

\* mutant of splitVertically: a square is split vertically
splitVerticallyOnTies(width, height, minSize) ==
    (width >= height /\ canSplitVertically(width, minSize))
        \/ ~canSplitHorizontally(height, minSize)

splitVertically(width, height, minSize) ==
    (width > height /\ canSplitVertically(width, minSize))
        \/ ~canSplitHorizontally(height, minSize)

\* mutant of splitOffsets: the offset is drawn over the whole extent
splitOffsetsUnpadded(extent, minSize) == 0..extent

\* outcomes of Math.round(minSize + Math.random() * (extent - minSize * 2)),
\* Math.random() in [0, 1)
splitOffsets(extent, minSize) ==
    LET d == extent - minSize * 2
    IN  IF d >= 0 THEN minSize..(minSize + d) ELSE (minSize + d)..minSize

\* mutant of splitChildren: the second child keeps the parent's extent
splitChildrenOverlapping(r, minSize, s) ==
    IF splitVertically(r.width, r.height, minSize)
    THEN << Rect(r.x, r.y, s, r.height), Rect(r.x + s, r.y, r.width, r.height) >>
    ELSE << Rect(r.x, r.y, r.width, s), Rect(r.x, r.y + s, r.width, r.height) >>

\* the two recursive calls of a split, in call order
splitChildren(r, minSize, s) ==
    IF splitVertically(r.width, r.height, minSize)
    THEN << Rect(r.x, r.y, s, r.height), Rect(r.x + s, r.y, r.width - s, r.height) >>
    ELSE << Rect(r.x, r.y, r.width, s), Rect(r.x, r.y + s, r.width, r.height - s) >>

splitExtent(r, minSize) ==
    IF splitVertically(r.width, r.height, minSize) THEN r.width ELSE r.height

\* A configuration of the recursion: the pending calls, the leaves pushed so
\* far and the id counter.
Config(st, shapes, counter) == [stack |-> st, shapes |-> shapes, counter |-> counter]

\* every configuration one call of partition can lead to
partitionStep(cfg, minSize, maxSize) ==
    LET r == Head(cfg.stack)
        rest == Tail(cfg.stack)
    IN  { IF emitsLeaf(stop, r.width, r.height, minSize)
          THEN Config(rest, Append(cfg.shapes, BaseShape(cfg.counter, r)), cfg.counter + 1)
          ELSE Config(splitChildren(r, minSize, ch) \o rest, cfg.shapes, cfg.counter)
          : stop \in shouldStopOutcomes(r.width, r.height, maxSize),
            ch \in splitOffsets(splitExtent(r, minSize), minSize) }


RECURSIVE runPartition(_, _, _)
\* the final configurations of partition(0, 0, W, H) and everything it calls
runPartition(cfg, minSize, maxSize) ==
    IF cfg.stack = <<>>
    THEN {cfg}
    ELSE UNION { runPartition(c, minSize, maxSize) : c \in partitionStep(cfg, minSize, maxSize) }

\* mutant of resetCounter: the counter is not reset
resetCounterKept(old) == old

\* this.shapeIdCounter = 0
resetCounter(old) == 0

rootConfig(width, height, counter) == Config(<<Rect(0, 0, width, height)>>, <<>>, counter)

(***************************************************************************)
(* The shuffle of regenerateLayout.                                        *)
(***************************************************************************)
\* Array.from({ length: n }, (_, i) => i)
identityIndices(n) == [k \in 1..n |-> k - 1]

\* mutant of swap: only slot i is assigned
swapOverwriting(arr, i, j) == [arr EXCEPT ![i + 1] = arr[j + 1]]

\* [indices[i], indices[j]] = [indices[j], indices[i]]  (0-based i, j)
swap(arr, i, j) == [arr EXCEPT ![i + 1] = arr[j + 1], ![j + 1] = arr[i + 1]]

\* mutant of drawJ: j is drawn below i
drawJBelow(i) == 0..(i - 1)

\* outcomes of Math.floor(Math.random() * (i + 1))
drawJ(i) == 0..i

\* one iteration of the loop body at index i
shuffleStep(arr, i) == { swap(arr, i, j) : j \in drawJ(i) }

RECURSIVE shuffleFrom(_, _)
\* for (let i = ...; i > 0; i--) from index i on
shuffleFrom(arr, i) ==
    IF i > 0 THEN UNION { shuffleFrom(a, i - 1) : a \in shuffleStep(arr, i) } ELSE {arr}

\* indices.map(idx => this.baseShapes()[idx].id)
mapToIds(arr, shapes) == [k \in 1..Len(arr) |-> shapes[arr[k] + 1].id]

\* everything a whole regenerateLayout can publish for a canvas W x H
regenerateOutcomes(width, height, minSize, maxSize, counter) ==
    UNION { { [baseShapes |-> c.shapes,
               shuffledIndices |-> mapToIds(p, c.shapes),
               shapeIdCounter |-> c.counter]
              : p \in shuffleFrom(identityIndices(Len(c.shapes)), Len(c.shapes) - 1) }
            : c \in runPartition(rootConfig(width, height, resetCounter(counter)),
                                 minSize, maxSize) }

\* The most leaves a canvas can be cut into (every split leaves minSize on both
\* sides).  It caps the inputs that are explored, because a run with N leaves
\* has N! shuffles.
LeafCap(width, height, minSize) ==
    Max2(1, width \div minSize) * Max2(1, height \div minSize)

(***************************************************************************)
(* generatedShapes: the derived style computation.                         *)
(***************************************************************************)
\* Array.prototype.slice(0, end)
slice0(arr, end) ==
    LET n == Len(arr)
        e == IF end < 0 THEN Max2(n + end, 0) ELSE Min2(end, n)
    IN  SubSeq(arr, 1, e)

\* Math.floor(base.length * (whiteSpace / 100)); for the lengths and percentages
\* of this model the double product is exact, so the floor is the integer one
numToMakeWhite(n, ws) == (n * ws) \div 100

\* new Set(indices.slice(0, numToMakeWhite))
whiteIndices(shapes, order, ws) == Range(slice0(order, numToMakeWhite(Len(shapes), ws)))

\* colors.length > 0 ? colors : ['#cccccc']
effectiveColors(palette) == IF Len(palette) > 0 THEN palette ELSE FallbackColors

\* mutant of shapeColor: the palette slot is counted among the non-blank shapes
shapeColorShifted(id, white, palette) ==
    IF id \in white
    THEN WhiteColor
    ELSE effectiveColors(palette)[((id + Cardinality(white)) % Len(effectiveColors(palette))) + 1]

\* whiteIndices.has(shape.id) ? '#ffffff' : effectiveColors[shape.id % effectiveColors.length]
shapeColor(id, white, palette) ==
    IF id \in white
    THEN WhiteColor
    ELSE effectiveColors(palette)[(id % Len(effectiveColors(palette))) + 1]

computeShapes(shapes, order, palette, ws, type) ==
    IF Len(shapes) = 0
    THEN <<>>
    ELSE [k \in 1..Len(shapes) |->
            [id |-> shapes[k].id, x |-> shapes[k].x, y |-> shapes[k].y,
             width |-> shapes[k].width, height |-> shapes[k].height,
             type |-> type,
             color |-> shapeColor(shapes[k].id, whiteIndices(shapes, order, ws), palette)]]

generatedShapes == computeShapes(baseShapes, shuffledIndices, colors, whiteSpace, shapeType)

(***************************************************************************)
(* The handlers, each as one step.                                         *)
(***************************************************************************)
Init ==
    /\ colors = InitColors
    /\ whiteSpace = InitWhiteSpace
    /\ shapeType = "square"
    /\ minShapeSize = InitMinShapeSize
    /\ maxShapeSize = InitMaxShapeSize
    /\ baseShapes = <<>>
    /\ shuffledIndices = <<>>
    /\ canvasWidth = 0
    /\ canvasHeight = 0
    /\ shapeIdCounter = 0
    /\ rendered = FALSE
    /\ generation = 0
    /\ lastCanvas = NoCanvas
    /\ pc = "idle"
    /\ stack = <<>>
    /\ newBaseShapes = <<>>
    /\ indices = <<>>
    /\ loopI = 0
    /\ callDepth = <<>>
    /\ maxDepth = 0

\* mutant of regenerateLayout: without a canvas the published geometry is cleared
regenerateLayoutClearing(minSize, maxSize) ==
    \E el \in CanvasElements :
      /\ lastCanvas' = el
      /\ IF el = NoCanvas
        THEN /\ baseShapes' = <<>>
             /\ shuffledIndices' = <<>>
             /\ UNCHANGED <<canvasWidth, canvasHeight, shapeIdCounter, generation>>
        ELSE /\ LeafCap(el[1], el[2], minSize) <= MaxShapes
             /\ generation' = nextGeneration(generation)
             /\ canvasWidth' = el[1]
             /\ canvasHeight' = el[2]
             /\ \E out \in regenerateOutcomes(el[1], el[2], minSize, maxSize, shapeIdCounter) :
                    /\ baseShapes' = out.baseShapes
                    /\ shuffledIndices' = out.shuffledIndices
                    /\ shapeIdCounter' = out.shapeIdCounter

\* regenerateLayout() as a whole, with the sizes the signals hold when it is called
regenerateLayout(minSize, maxSize) ==
    \E el \in CanvasElements :
      /\ lastCanvas' = el
      /\ IF el = NoCanvas
        THEN UNCHANGED <<baseShapes, shuffledIndices, canvasWidth, canvasHeight,
                         shapeIdCounter, generation>>
        ELSE /\ LeafCap(el[1], el[2], minSize) <= MaxShapes
             /\ generation' = nextGeneration(generation)
             /\ canvasWidth' = el[1]
             /\ canvasHeight' = el[2]
             /\ \E out \in regenerateOutcomes(el[1], el[2], minSize, maxSize, shapeIdCounter) :
                    /\ baseShapes' = out.baseShapes
                    /\ shuffledIndices' = out.shuffledIndices
                    /\ shapeIdCounter' = out.shapeIdCounter

\* constructor: afterNextRender(() => this.regenerateLayout())
AfterNextRender ==
    /\ pc = "idle"
    /\ ~rendered
    /\ rendered' = TRUE
    /\ regenerateLayout(minShapeSize, maxShapeSize)
    /\ UNCHANGED <<styleVars, minShapeSize, maxShapeSize, runVars>>

UpdateColor(index, newColor) ==
    /\ pc = "idle"
    /\ rendered
    /\ index \in 0..(Len(colors) - 1)
    /\ colors' = [colors EXCEPT ![index + 1] = newColor]
    /\ UNCHANGED <<whiteSpace, shapeType, minShapeSize, maxShapeSize, baseShapes,
                   shuffledIndices, canvasWidth, canvasHeight, shapeIdCounter, rendered,
                   generation, lastCanvas, runVars>>

\* mutant of UpdateWhiteSpace: the handler also draws a new stable order
UpdateWhiteSpaceReshuffling(value) ==
    /\ pc = "idle"
    /\ rendered
    /\ whiteSpace' = value
    /\ shuffledIndices' \in
          { mapToIds(p, baseShapes)
            : p \in shuffleFrom(identityIndices(Len(baseShapes)), Len(baseShapes) - 1) }
    /\ UNCHANGED <<colors, shapeType, minShapeSize, maxShapeSize, baseShapes,
                   canvasWidth, canvasHeight, shapeIdCounter, rendered,
                   generation, lastCanvas, runVars>>

UpdateWhiteSpace(value) ==
    /\ pc = "idle"
    /\ rendered
    /\ whiteSpace' = value
    /\ UNCHANGED <<colors, shapeType, minShapeSize, maxShapeSize, baseShapes,
                   shuffledIndices, canvasWidth, canvasHeight, shapeIdCounter, rendered,
                   generation, lastCanvas, runVars>>

UpdateShapeType(value) ==
    /\ pc = "idle"
    /\ rendered
    /\ shapeType' = value
    /\ UNCHANGED <<colors, whiteSpace, minShapeSize, maxShapeSize, baseShapes,
                   shuffledIndices, canvasWidth, canvasHeight, shapeIdCounter, rendered,
                   generation, lastCanvas, runVars>>

\* mutant of raisedMax: the max control is left alone
raisedMaxUncoupled(maxSize, value) == maxSize

\* if (this.maxShapeSize() < value) this.maxShapeSize.set(value)
raisedMax(maxSize, value) == IF maxSize < value THEN value ELSE maxSize

\* if (this.minShapeSize() > value) this.minShapeSize.set(value)
loweredMin(minSize, value) == IF minSize > value THEN value ELSE minSize

UpdateMinShapeSize(value) ==
    /\ pc = "idle"
    /\ rendered
    /\ minShapeSize' = value
    /\ maxShapeSize' = raisedMax(maxShapeSize, value)
    /\ regenerateLayout(minShapeSize', maxShapeSize')
    /\ UNCHANGED <<styleVars, rendered, runVars>>

UpdateMaxShapeSize(value) ==
    /\ pc = "idle"
    /\ rendered
    /\ maxShapeSize' = value
    /\ minShapeSize' = loweredMin(minShapeSize, value)
    /\ regenerateLayout(minShapeSize', maxShapeSize')
    /\ UNCHANGED <<styleVars, rendered, runVars>>

\* Spec: the constructor's callback and the geometry handlers.  The style
\* handlers write only colors, whiteSpace and shapeType, which no geometry
\* handler reads, and are explored over published geometries in SpecStyle.
Next ==
    \/ AfterNextRender
    \/ \E value \in SizeValues : UpdateMinShapeSize(value)
    \/ \E value \in SizeValues : UpdateMaxShapeSize(value)

Spec == Init /\ [][Next]_vars

(***************************************************************************)
(* The style handlers over a published geometry (SpecStyle).  They write   *)
(* only colors, whiteSpace and shapeType; the geometry they read is any    *)
(* one regenerateLayout can publish, and the palette any short palette.    *)
(***************************************************************************)
StylePalettes == UNION { [1..n -> StyleColors] : n \in 0..MaxPalette } \cup {InitColors}

InitStyle ==
    /\ colors \in StylePalettes
    /\ whiteSpace = InitWhiteSpace
    /\ shapeType = "square"
    /\ \E w \in CanvasValues, h \in CanvasValues, mn \in SizeValues, mx \in SizeValues :
          /\ mn <= mx
          /\ LeafCap(w, h, mn) <= StyleMaxShapes
          /\ minShapeSize = mn
          /\ maxShapeSize = mx
          /\ canvasWidth = w
          /\ canvasHeight = h
          /\ lastCanvas = <<w, h>>
          /\ \E out \in regenerateOutcomes(w, h, mn, mx, 0) :
                /\ baseShapes = out.baseShapes
                /\ shuffledIndices = out.shuffledIndices
                /\ shapeIdCounter = out.shapeIdCounter
    /\ rendered = TRUE
    /\ generation = 1
    /\ pc = "idle"
    /\ stack = <<>>
    /\ newBaseShapes = <<>>
    /\ indices = <<>>
    /\ loopI = 0
    /\ callDepth = <<>>
    /\ maxDepth = 0

NextStyle ==
    \/ \E index \in 0..(Len(InitColors) - 1), newColor \in PickedColors :
           UpdateColor(index, newColor)
    \/ \E value \in WhiteSpaceValues \cup {InitWhiteSpace} : UpdateWhiteSpace(value)
    \/ \E value \in ShapeTypes : UpdateShapeType(value)

SpecStyle == InitStyle /\ [][NextStyle]_vars

(***************************************************************************)
(* One regenerateLayout, statement by statement (SpecRun).                 *)
(***************************************************************************)
\* the state in which a handler calls regenerateLayout, minShapeSize being one
\* of minValues
runStart(minValues) ==
    /\ colors = InitColors
    /\ whiteSpace = InitWhiteSpace
    /\ shapeType = "square"
    /\ minShapeSize \in minValues
    /\ maxShapeSize \in SizeValues \cup {InitMaxShapeSize}
    /\ minShapeSize <= maxShapeSize
    /\ baseShapes = <<>>
    /\ shuffledIndices = <<>>
    /\ canvasWidth = 0
    /\ canvasHeight = 0
    /\ shapeIdCounter = 0
    /\ rendered = TRUE
    /\ generation = 0
    /\ lastCanvas = NoCanvas
    /\ pc = "call"
    /\ stack = <<>>
    /\ newBaseShapes = <<>>
    /\ indices = <<>>
    /\ loopI = 0
    /\ callDepth = <<>>
    /\ maxDepth = 0

InitRun == runStart(SizeValues \cup {InitMinShapeSize})

\* lines 138-145 and the call partition(0, 0, canvasWidth, canvasHeight), for
\* the canvas element el
enterRun(el) ==
    /\ pc = "call"
    /\ lastCanvas' = el
    /\ IF el = NoCanvas
       THEN /\ pc' = "done"
            /\ UNCHANGED <<canvasWidth, canvasHeight, shapeIdCounter, stack, newBaseShapes,
                           callDepth, maxDepth>>
       ELSE /\ canvasWidth' = el[1]
            /\ canvasHeight' = el[2]
            /\ shapeIdCounter' = resetCounter(shapeIdCounter)
            /\ newBaseShapes' = <<>>
            /\ stack' = <<Rect(0, 0, el[1], el[2])>>
            /\ callDepth' = <<0>>
            /\ maxDepth' = 0
            /\ pc' = "partition"
    /\ UNCHANGED <<styleVars, minShapeSize, maxShapeSize, baseShapes, shuffledIndices,
                   rendered, generation, indices, loopI>>

RunEnter ==
    \E el \in RunCanvasElements :
        /\ el # NoCanvas => LeafCap(el[1], el[2], minShapeSize) <= RunMaxShapes
        /\ enterRun(el)

\* one call of partition
RunPartitionCall ==
    /\ pc = "partition"
    /\ stack # <<>>
    /\ \E c \in partitionStep(Config(stack, newBaseShapes, shapeIdCounter),
                              minShapeSize, maxShapeSize) :
          /\ stack' = c.stack
          /\ newBaseShapes' = c.shapes
          /\ shapeIdCounter' = c.counter
          /\ IF Len(c.stack) > Len(stack)
             THEN /\ callDepth' = <<Head(callDepth) + 1, Head(callDepth) + 1>> \o Tail(callDepth)
                  /\ maxDepth' = Max2(maxDepth, Head(callDepth) + 1)
             ELSE /\ callDepth' = Tail(callDepth)
                  /\ maxDepth' = maxDepth
    /\ UNCHANGED <<styleVars, minShapeSize, maxShapeSize, baseShapes, shuffledIndices,
                   canvasWidth, canvasHeight, rendered, generation, lastCanvas, pc, indices,
                   loopI>>

\* mutant of RunPublishShapes: the handler returns once the shapes are set
RunPublishShapesAndReturn ==
    /\ pc = "partition"
    /\ stack = <<>>
    /\ baseShapes' = newBaseShapes
    /\ indices' = identityIndices(Len(newBaseShapes))
    /\ loopI' = Len(newBaseShapes) - 1
    /\ pc' = "done"
    /\ generation' = nextGeneration(generation)
    /\ UNCHANGED <<styleVars, minShapeSize, maxShapeSize, shuffledIndices, canvasWidth,
                   canvasHeight, shapeIdCounter, rendered, lastCanvas, stack, newBaseShapes,
                   callDepth, maxDepth>>

\* this.baseShapes.set(newBaseShapes); const indices = Array.from(...); i = length - 1
RunPublishShapes ==
    /\ pc = "partition"
    /\ stack = <<>>
    /\ baseShapes' = newBaseShapes
    /\ indices' = identityIndices(Len(newBaseShapes))
    /\ loopI' = Len(newBaseShapes) - 1
    /\ pc' = "shuffle"
    /\ generation' = nextGeneration(generation)
    /\ UNCHANGED <<styleVars, minShapeSize, maxShapeSize, shuffledIndices, canvasWidth,
                   canvasHeight, shapeIdCounter, rendered, lastCanvas, stack, newBaseShapes,
                   callDepth, maxDepth>>

\* one iteration of the shuffle loop
RunShuffleIteration ==
    /\ pc = "shuffle"
    /\ loopI > 0
    /\ indices' \in shuffleStep(indices, loopI)
    /\ loopI' = loopI - 1
    /\ UNCHANGED <<styleVars, minShapeSize, maxShapeSize, baseShapes, shuffledIndices,
                   canvasWidth, canvasHeight, shapeIdCounter, rendered, generation,
                   lastCanvas, pc, stack, newBaseShapes, callDepth, maxDepth>>

\* this.shuffledIndices.set(indices.map(...))
RunPublishOrder ==
    /\ pc = "shuffle"
    /\ ~(loopI > 0)
    /\ shuffledIndices' = mapToIds(indices, baseShapes)
    /\ pc' = "done"
    /\ UNCHANGED <<styleVars, minShapeSize, maxShapeSize, baseShapes, canvasWidth,
                   canvasHeight, shapeIdCounter, rendered, generation, lastCanvas, stack,
                   newBaseShapes, indices, loopI, callDepth, maxDepth>>

NextRun ==
    \/ RunEnter
    \/ RunPartitionCall
    \/ RunPublishShapes
    \/ RunShuffleIteration
    \/ RunPublishOrder

SpecRun == InitRun /\ [][NextRun]_vars

\* the handler keeps executing until it returns
SpecRunFair == SpecRun /\ WF_vars(NextRun)

(***************************************************************************)
(* One regenerateLayout after updateMinShapeSize delivered a value <= 0    *)
(* (SpecRunInvalid).  The recursion is then unbounded, so a run is         *)
(* followed for MaxCalls calls of partition and leaves at most.            *)
(***************************************************************************)
InitRunInvalid == runStart(InvalidSizeValues)

RunEnterInvalid == \E el \in CanvasElements : enterRun(el)

RunPartitionCallBounded ==
    /\ Len(stack) + Len(newBaseShapes) < MaxCalls
    /\ RunPartitionCall

NextRunInvalid ==
    \/ RunEnterInvalid
    \/ RunPartitionCallBounded
    \/ RunPublishShapes
    \/ RunShuffleIteration
    \/ RunPublishOrder

SpecRunInvalid == InitRunInvalid /\ [][NextRunInvalid]_vars

(***************************************************************************)
(* Properties.                                                             *)
(***************************************************************************)
RECURSIVE SumAreas(_)
SumAreas(shapes) ==
    IF shapes = <<>> THEN 0
    ELSE Head(shapes).width * Head(shapes).height + SumAreas(Tail(shapes))

\* the unit cell [cx, cx+1) x [cy, cy+1) lies inside the rectangle sh
CoversCell(sh, cx, cy) ==
    /\ sh.x <= cx /\ cx < sh.x + sh.width
    /\ sh.y <= cy /\ cy < sh.y + sh.height

InsideCanvas(sh) ==
    /\ sh.width >= 0 /\ sh.height >= 0
    /\ sh.x >= 0 /\ sh.x + sh.width <= canvasWidth
    /\ sh.y >= 0 /\ sh.y + sh.height <= canvasHeight

\* the partition of this run has returned and its leaves are published
ShapesPublished == pc \in {"shuffle", "done"} /\ generation > 0

\* C1: on a canvas W x H with W, H >= 1 the leaves of a run tile the canvas:
\* every unit cell lies inside exactly one leaf, no leaf reaches outside the
\* canvas, and the leaf areas sum to W * H.
LeavesTileCanvas ==
    (ShapesPublished /\ canvasWidth >= 1 /\ canvasHeight >= 1) =>
        /\ \A cx \in 0..(canvasWidth - 1), cy \in 0..(canvasHeight - 1) :
              Cardinality({k \in 1..Len(baseShapes) : CoversCell(baseShapes[k], cx, cy)}) = 1
        /\ \A k \in 1..Len(baseShapes) : InsideCanvas(baseShapes[k])
        /\ SumAreas(baseShapes) = canvasWidth * canvasHeight

\* a run on a two-dimensional canvas that cut along both axes
TiledWitness ==
    /\ pc = "done"
    /\ canvasWidth >= 2 /\ canvasHeight >= 2
    /\ Len(baseShapes) >= 5
    /\ \E k \in 1..Len(baseShapes) : baseShapes[k].width * baseShapes[k].height > 1

\* C2 as stated: unless it is the sole leaf of the run, every leaf of a run on a
\* canvas W x H (W, H >= 1) has width >= minSize and height >= minSize.
LeavesAtLeastMinUnlessSole ==
    (ShapesPublished /\ canvasWidth >= 1 /\ canvasHeight >= 1 /\ Len(baseShapes) > 1) =>
        \A k \in 1..Len(baseShapes) :
            baseShapes[k].width >= minShapeSize /\ baseShapes[k].height >= minShapeSize

\* C2 amended: every leaf has width >= min(minSize, W) and height >= min(minSize, H):
\* a leaf is below minSize on an axis only when the whole canvas is, and then it
\* spans the canvas on that axis.
LeavesAtLeastMinOrCanvas ==
    ShapesPublished =>
        \A k \in 1..Len(baseShapes) :
            /\ baseShapes[k].width >= Min2(minShapeSize, canvasWidth)
            /\ baseShapes[k].height >= Min2(minShapeSize, canvasHeight)
            /\ baseShapes[k].width < minShapeSize => baseShapes[k].width = canvasWidth
            /\ baseShapes[k].height < minShapeSize => baseShapes[k].height = canvasHeight

\* a thin canvas was cut: several leaves, each lower than minSize
ThinCanvasWitness ==
    /\ pc = "done"
    /\ canvasWidth >= 1 /\ canvasHeight >= 1
    /\ Len(baseShapes) > 1
    /\ \E k \in 1..Len(baseShapes) : baseShapes[k].height < minShapeSize

\* C3: a leaf wider or higher than maxSize was unsplittable when it was emitted:
\* width < 2 * minSize and height < 2 * minSize.
OversizeLeavesUnsplittable ==
    pc \in {"partition", "shuffle", "done"} =>
        \A k \in 1..Len(newBaseShapes) :
            (newBaseShapes[k].width > maxShapeSize \/ newBaseShapes[k].height > maxShapeSize) =>
                /\ newBaseShapes[k].width < 2 * minShapeSize
                /\ newBaseShapes[k].height < 2 * minShapeSize

\* a leaf over maxSize was emitted, next to leaves that were split off
OversizeLeafWitness ==
    /\ pc = "done"
    /\ Len(baseShapes) > 1
    /\ \E k \in 1..Len(baseShapes) :
          baseShapes[k].width > maxShapeSize \/ baseShapes[k].height > maxShapeSize

\* C7: after every regenerateLayout the shape at position k (from 0) has id k, so
\* the ids are exactly 0..N-1 without duplicates.
IdsArePositions ==
    /\ \A k \in 1..Len(baseShapes) : baseShapes[k].id = k - 1
    /\ {baseShapes[k].id : k \in 1..Len(baseShapes)} = 0..(Len(baseShapes) - 1)
    /\ (pc = "idle" /\ generation > 0) => shapeIdCounter = Len(baseShapes)

\* a second run published several shapes
SecondRunWitness ==
    /\ pc = "idle"
    /\ generation >= 2
    /\ Len(baseShapes) >= 2

\* C8 as stated: after a run on a canvas with width <= 0 or height <= 0 the
\* base-shape set is empty.
DegenerateCanvasEmpty ==
    (pc = "idle" /\ generation > 0 /\ (canvasWidth <= 0 \/ canvasHeight <= 0)) =>
        baseShapes = <<>>

\* C9: minShapeSize <= maxShapeSize between handler calls, hence whenever
\* the partition is invoked.
MinAtMostMax == minShapeSize <= maxShapeSize

\* both controls were moved and one of them dragged the other along
CoupledWitness ==
    /\ rendered
    /\ minShapeSize = MaxSize
    /\ maxShapeSize = MaxSize

\* the work left: 2 * cells - 1 calls at most for every pending rectangle
RECURSIVE PendingWork(_)
PendingWork(st) ==
    IF st = <<>> THEN 0
    ELSE 2 * Max2(1, Head(st).width) * Max2(1, Head(st).height) - 1 + PendingWork(Tail(st))

\* a call that split: the two children are shorter than the parent on the split axis
SplitShrinks ==
    Len(stack') = Len(stack) + 1 =>
        \/ /\ stack'[1].width < stack[1].width /\ stack'[2].width < stack[1].width
           /\ stack'[1].width + stack'[2].width = stack[1].width
        \/ /\ stack'[1].height < stack[1].height /\ stack'[2].height < stack[1].height
           /\ stack'[1].height + stack'[2].height = stack[1].height

\* C10: every run of the recursion terminates whatever the random outcomes:
\* every call of partition lowers the work left, a split gives both children a
\* smaller split extent, and the run reaches its end.
PartitionTerminates ==
    /\ [][(pc = "partition" /\ stack # <<>>) =>
             (PendingWork(stack') < PendingWork(stack) /\ SplitShrinks)]_vars
    /\ <>(pc = "done")

\* a run that split several times has returned
DeepRunWitness ==
    /\ pc = "done"
    /\ Len(baseShapes) >= 4
    /\ Len(shuffledIndices) = Len(baseShapes)

\* the ids of the shapes the style computation gives the blank colour
BlankIds == {generatedShapes[k].id : k \in {j \in 1..Len(generatedShapes) :
                                               generatedShapes[j].color = WhiteColor}}

\* floor(N * blankFraction) clamped to [0, N], blankFraction = whiteSpace / 100
ClampedBlankCount ==
    Max2(0, Min2(Len(baseShapes), (Len(baseShapes) * whiteSpace) \div 100))

\* C4 as stated: for every blank fraction, also below 0 and above 1, the blank
\* shapes are exactly the first floor(N * blankFraction) ids, clamped to [0, N],
\* of the stable order.
BlankCountClamped ==
    /\ Cardinality(BlankIds) = ClampedBlankCount
    /\ BlankIds = {shuffledIndices[k] : k \in 1..ClampedBlankCount}

\* the palette slot of shape id: effectivePalette[id mod |effectivePalette|]
PaletteSlotColor(id) ==
    IF colors = <<>> THEN "#cccccc" ELSE colors[(id % Len(colors)) + 1]

ColorBySlot ==
    \A k \in 1..Len(generatedShapes) :
        generatedShapes[k].color # WhiteColor =>
            generatedShapes[k].color = PaletteSlotColor(generatedShapes[k].id)

ColorStableStep ==
    (colors' = colors /\ baseShapes' = baseShapes /\ shuffledIndices' = shuffledIndices) =>
        \A k \in 1..Len(generatedShapes) :
            (generatedShapes[k].color # WhiteColor /\ generatedShapes'[k].color # WhiteColor) =>
                generatedShapes'[k].color = generatedShapes[k].color

\* C5: every non-blank shape has the colour of its palette slot id mod |palette|,
\* and a step that leaves shapes, stable order and palette alone never changes
\* the colour of an id that is non-blank before and after.
ColorsFollowPaletteSlot == []ColorBySlot /\ [][ColorStableStep]_vars

\* after a change of the blank fraction some shape is blank and a non-blank
\* shape has an id beyond the palette, so its slot wrapped around
WrappedSlotWitness ==
    /\ whiteSpace # InitWhiteSpace
    /\ Len(colors) >= 2
    /\ BlankIds # {}
    /\ \E k \in 1..Len(generatedShapes) :
          /\ generatedShapes[k].color # WhiteColor
          /\ generatedShapes[k].id >= Len(colors)

\* C6 as stated: with shapes and stable order fixed, raising the blank fraction
\* never un-blanks an id: the blank set of f1 is a subset of that of f2 >= f1.
BlankSetGrows ==
    [][(baseShapes' = baseShapes /\ shuffledIndices' = shuffledIndices
            /\ whiteSpace <= whiteSpace') => BlankIds \subseteq BlankIds']_vars

\* C11: the style-only handlers leave the base shapes and the stable order as
\* the last regenerateLayout published them: no step re-partitions or re-shuffles.
StyleKeepsGeometry ==
    [][/\ baseShapes' = baseShapes
       /\ shuffledIndices' = shuffledIndices
       /\ shapeIdCounter' = shapeIdCounter
       /\ generation' = generation]_vars

\* every style handler has acted on a published geometry of several shapes
StyledWitness ==
    /\ whiteSpace # InitWhiteSpace
    /\ shapeType = "circle"
    /\ \E k \in 1..Len(colors) : colors[k] \in PickedColors
    /\ Len(baseShapes) >= 3
    /\ Len(shuffledIndices) = Len(baseShapes)

\* the points at which a style recomputation can run: between handler calls
BetweenHandlers == pc \in {"idle", "call", "done"}

\* C12: wherever a style recomputation can read them, the base shapes and the
\* stable order belong to the same generation: both are still the previous
\* ones, or both are the ones this run computed.
PairPublishedTogether ==
    BetweenHandlers =>
        IF pc = "done" /\ lastCanvas # NoCanvas
        THEN /\ baseShapes = newBaseShapes
             /\ Len(shuffledIndices) = Len(baseShapes)
             /\ \A k \in 1..Len(shuffledIndices) :
                   shuffledIndices[k] = baseShapes[indices[k] + 1].id
        ELSE baseShapes = <<>> /\ shuffledIndices = <<>>

\* a run has returned with several new shapes and their order
PublishedPairWitness ==
    /\ pc = "done"
    /\ Len(baseShapes) >= 3
    /\ Len(shuffledIndices) = Len(baseShapes)
    /\ shuffledIndices # [k \in 1..Len(baseShapes) |-> k - 1]

\* C13 as stated: a partition requested with minSize <= 0 is rejected before
\* any recursion: no call of partition is pending, no leaf is emitted and
\* nothing is committed to the base shapes.
NonPositiveMinRejected ==
    minShapeSize <= 0 =>
        /\ newBaseShapes = <<>>
        /\ baseShapes = <<>>
        /\ maxDepth = 0

\* C14 as stated: with an empty palette, whatever the number of base shapes
\* and the blank fraction, every shape receives the fallback colour '#cccccc'
\* and none the blank marker '#ffffff'.
EmptyPaletteAllFallback ==
    colors = <<>> =>
        \A k \in 1..Len(generatedShapes) :
            /\ generatedShapes[k].color = FallbackColors[1]
            /\ generatedShapes[k].color # WhiteColor

RunCompleted == pc = "done" /\ lastCanvas # NoCanvas

\* C15: after every completed regenerateLayout the stable order is a
\* permutation of the ids of the base shapes just produced: same length, every
\* id 0..N-1 present, none twice.
OrderIsPermutation ==
    RunCompleted =>
        /\ Len(shuffledIndices) = Len(baseShapes)
        /\ Range(shuffledIndices) = {baseShapes[k].id : k \in 1..Len(baseShapes)}
        /\ Range(shuffledIndices) = 0..(Len(baseShapes) - 1)
        /\ \A k, l \in 1..Len(shuffledIndices) :
              shuffledIndices[k] = shuffledIndices[l] => k = l

\* a completed run whose order starts with the last id
LastFirstWitness ==
    /\ RunCompleted
    /\ Len(baseShapes) >= 4
    /\ shuffledIndices[1] = Len(baseShapes) - 1
    /\ shuffledIndices[Len(baseShapes)] # 0

\* the call partition(0, 0, W, H) is the next one to execute
RootCall == pc = "partition" /\ stack # <<>> /\ newBaseShapes = <<>> /\ maxDepth = 0

RootLeaf == [id |-> 0, x |-> 0, y |-> 0, width |-> canvasWidth, height |-> canvasHeight]

RootUnsplittable ==
    canvasWidth < 2 * minShapeSize /\ canvasHeight < 2 * minShapeSize

RootWithinMax == canvasWidth <= maxShapeSize /\ canvasHeight <= maxShapeSize

\* C16: when the root cannot be split in either direction, or is within
\* maxSize on both axes and the stop trial succeeds (the root call returns
\* without recursing), the run emits exactly one leaf, the whole canvas with
\* id 0: the root call leaves no call pending, and a run whose first leaf is
\* the whole canvas publishes that leaf alone.
RootIsSoleLeaf ==
    /\ [][RootCall =>
            /\ RootUnsplittable => (newBaseShapes' = <<RootLeaf>> /\ stack' = <<>>)
            /\ (RootWithinMax /\ Len(stack') <= Len(stack)) =>
                  (newBaseShapes' = <<RootLeaf>> /\ stack' = <<>>)]_vars
    /\ [](RunCompleted /\ RootUnsplittable => baseShapes = <<RootLeaf>>)
    /\ [](RunCompleted /\ Len(baseShapes) >= 1
              /\ baseShapes[1].width = canvasWidth /\ baseShapes[1].height = canvasHeight
            => (baseShapes = <<RootLeaf>> /\ shuffledIndices = <<0>>))

\* the scenario canvas 100x100, minSize 50, maxSize 100 in small: a splittable
\* root within maxSize is published as the only leaf
StoppedRootWitness ==
    /\ RunCompleted
    /\ canvasWidth = 2 * minShapeSize /\ canvasHeight = canvasWidth
    /\ maxShapeSize = canvasWidth
    /\ baseShapes = <<RootLeaf>>
    /\ shuffledIndices = <<0>>

\* a call of partition that splits: two calls replace the one executed
SplitStep == pc = "partition" /\ stack # <<>> /\ Len(stack') = Len(stack) + 1

\* the axis rule, with both legality tests written out
VerticalAxis(r) ==
    (r.width > r.height /\ r.width >= 2 * minShapeSize) \/ ~(r.height >= 2 * minShapeSize)

\* C17: whenever partition splits a rectangle, the split axis is one whose
\* extent is at least 2*minSize, the offset s satisfies
\* minSize <= s <= extent - minSize, so both children are at least minSize
\* along that axis and their extents sum to the parent's; the axis is vertical
\* exactly when (width > height and a vertical split is legal) or no
\* horizontal split is legal.
SplitsAreLegal ==
    [][SplitStep =>
        LET r == Head(stack)
            a == stack'[1]
            b == stack'[2]
        IN  IF VerticalAxis(r)
            THEN /\ r.width >= 2 * minShapeSize
                 /\ a.width >= minShapeSize /\ a.width <= r.width - minShapeSize
                 /\ b.width >= minShapeSize
                 /\ a.width + b.width = r.width
                 /\ a.x = r.x /\ b.x = r.x + a.width
                 /\ a.y = r.y /\ b.y = r.y
                 /\ a.height = r.height /\ b.height = r.height
            ELSE /\ r.height >= 2 * minShapeSize
                 /\ a.height >= minShapeSize /\ a.height <= r.height - minShapeSize
                 /\ b.height >= minShapeSize
                 /\ a.height + b.height = r.height
                 /\ a.y = r.y /\ b.y = r.y + a.height
                 /\ a.x = r.x /\ b.x = r.x
                 /\ a.width = r.width /\ b.width = r.width]_vars

\* the root, at least as high as wide, has just been split horizontally at
\* the smallest offset
UnevenSplitWitness ==
    /\ pc = "partition"
    /\ Len(stack) = 2
    /\ newBaseShapes = <<>>
    /\ canvasWidth <= canvasHeight
    /\ stack[1].width = canvasWidth
    /\ stack[1].height = minShapeSize
    /\ stack[2].height > minShapeSize
    /\ stack[2].y = minShapeSize

RunStarted == pc \in {"partition", "shuffle", "done"} /\ lastCanvas # NoCanvas

\* C18 as stated, for canvases at least minSize wide and high: the depth of
\* every leaf is at most log2(canvasWidth * canvasHeight / minSize^2), that is
\* 2^depth * minSize^2 <= canvas area.
DepthWithinLog2Area ==
    (RunStarted /\ canvasWidth >= minShapeSize /\ canvasHeight >= minShapeSize) =>
        (2 ^ maxDepth) * minShapeSize * minShapeSize <= canvasWidth * canvasHeight

\* the number of splits one axis of the canvas allows along a path
AxisSplits(extent) == Max2(0, (extent \div minShapeSize) - 1)

\* C18: for every partition run with minSize >= 1 the depth of every call,
\* hence of every leaf, is at most
\* max(0, floor(W / minSize) - 1) + max(0, floor(H / minSize) - 1).
DepthWithinAxisSplits ==
    RunStarted => maxDepth <= AxisSplits(canvasWidth) + AxisSplits(canvasHeight)

\* a completed run that reached the linear bound and went past the logarithmic one
DeepChainWitness ==
    /\ RunCompleted
    /\ canvasWidth >= minShapeSize /\ canvasHeight >= minShapeSize
    /\ maxDepth = AxisSplits(canvasWidth) + AxisSplits(canvasHeight)
    /\ (2 ^ maxDepth) * minShapeSize * minShapeSize > canvasWidth * canvasHeight

RECURSIVE Factorial(_)
Factorial(n) == IF n > 1 THEN n * Factorial(n - 1) ELSE 1

RECURSIVE DrawSequences(_)
\* the number of sequences of draws (j_i, ..., j_1) the loop can make from index i on
DrawSequences(i) == IF i > 0 THEN Cardinality(drawJ(i)) * DrawSequences(i - 1) ELSE 1

\* C19: the shuffle is a Fisher-Yates pass over 0..N-1: from every point of
\* the loop on, distinct sequences of draws give distinct results (as many
\* results as draw sequences), every result is a permutation of 0..N-1, and
\* the results are all the (i+1)! arrangements of the slots 0..i; at the start
\* of the loop (i = N-1) these are the N! permutations, each the result of
\* exactly one draw sequence.
ShuffleIsBijection ==
    (pc = "shuffle") =>
        LET results == shuffleFrom(indices, loopI)
            N == Len(baseShapes)
        IN  /\ Cardinality(results) = DrawSequences(loopI)
            /\ Cardinality(results) = Factorial(loopI + 1)
            /\ \A a \in results :
                  /\ Len(a) = N
                  /\ Range(a) = 0..(N - 1)
                  /\ \A k \in (loopI + 2)..N : a[k] = indices[k]
            /\ loopI = N - 1 => indices = [k \in 1..N |-> k - 1]

\* a completed run of at least four shapes published in reversed order
ReversedOrderWitness ==
    /\ RunCompleted
    /\ Len(baseShapes) >= 4
    /\ \A k \in 1..Len(baseShapes) : shuffledIndices[k] = Len(baseShapes) - k

\* C20: a regenerateLayout invoked while no canvas element is available
\* (from the constructor's callback, updateMinShapeSize or updateMaxShapeSize)
\* leaves baseShapes, shuffledIndices and the id counter unchanged, although
\* min/max have already been changed.
NoCanvasKeepsGeometry ==
    [][lastCanvas' = NoCanvas =>
          /\ baseShapes' = baseShapes
          /\ shuffledIndices' = shuffledIndices
          /\ shapeIdCounter' = shapeIdCounter]_vars

\* shapes of an earlier run still published after a size update without
\* canvas: a leaf above the new maxSize that the new minSize would split
StaleShapesWitness ==
    /\ lastCanvas = NoCanvas
    /\ baseShapes # <<>>
    /\ Len(shuffledIndices) = Len(baseShapes)
    /\ shapeIdCounter = Len(baseShapes)
    /\ \E k \in 1..Len(baseShapes) :
          /\ baseShapes[k].width > maxShapeSize
          /\ baseShapes[k].width >= 2 * minShapeSize

====
